---- MODULE Spec2Model ----
(***************************************************************************)
(* A model of src/pair.js: the status handler (setupStatusHandlers), the   *)
(* command handler (setupCommandHandlers), the duplicate credential file   *)
(* cleanup (cleanDuplicateFiles), the session map (activeSockets), the     *)
(* admin list (loadAdmins) and the profile updates (updateAboutStatus,     *)
(* updateStoryStatus).                                                     *)
(*                                                                         *)
(* JavaScript strings are sequences of one-character strings, so that      *)
(* trim, split, toUpperCase, startsWith and parseInt are computed as the   *)
(* code computes them.  Time is Date.now() in milliseconds.                *)
(***************************************************************************)
EXTENDS Integers, Sequences, FiniteSets, TLC

VARIABLES
    clock,                  \* Date.now()
    ticks,                  \* how often the clock has advanced (bounds the run)
    userConfig,             \* the userConfig object shared by both handlers
    lastStatusInteraction,  \* pair.js:196
    h,                      \* one record per status event delivered, in arrival order
    commandCooldowns,       \* pair.js:260
    cmdLog,                 \* one record per chat message delivered, in arrival order
    sent,                   \* the replies the command handler has sent
    viewLines,              \* the lines of the latest `config view` reply
    octokit,                \* pair.js:35-40: whether a GitHub client was built
    remoteFiles,            \* the names of the files in the repository's session directory
    runs,                   \* one record per call of cleanDuplicateFiles, in call order
    activeSockets,          \* pair.js:45
    sessions,               \* one record per session ever started, in start order
    sessionLog,             \* the failure the session manager reported last
    adminCache,             \* pair.js:51
    adminCacheTime,         \* pair.js:52
    adminFile,              \* what is at defaultConfig.ADMIN_LIST_PATH
    loads,                  \* one record per call of loadAdmins, in call order
    lastAboutUpdate,        \* pair.js:155
    lastStoryUpdate,        \* pair.js:175
    updates                 \* one record per call of updateAboutStatus or updateStoryStatus,
                            \* in call order

statusVars == <<lastStatusInteraction, h>>
cmdVars == <<commandCooldowns, cmdLog, sent, viewLines>>

cleanVars == <<octokit, remoteFiles, runs>>
sessVars == <<activeSockets, sessions, sessionLog>>

adminVars == <<adminCache, adminCacheTime, adminFile, loads>>

profileVars == <<lastAboutUpdate, lastStoryUpdate, updates>>

vars == <<clock, ticks, userConfig, statusVars, cmdVars, cleanVars, sessVars, adminVars,
          profileVars>>

-----------------------------------------------------------------------------
(* Bounds of the model *)

MaxEvents == 2        \* status events per run of SpecStatus
MaxTicks == 2         \* clock steps per run of SpecStatus
MaxRetryEvents == 1   \* status events per run of SpecRetry
MaxRetryTicks == 4    \* clock steps per run of SpecRetry
MaxCmdMsgs == 3       \* chat messages per run of SpecCommand
MaxCmdTicks == 2      \* clock steps per run of SpecCommand
MaxConfigMsgs == 2    \* chat messages per run of SpecConfig
MaxConfigTicks == 1   \* clock steps per run of SpecConfig
MaxCleanRuns == 1     \* calls of cleanDuplicateFiles per run of SpecClean
MaxSessions == 3      \* sessions started per run of SpecSession
MaxExtractMsgs == 1   \* chat messages per run of SpecExtract
MaxTokenMsgs == 2     \* chat messages per run of SpecTokens
MaxTokenTicks == 1    \* clock steps per run of SpecTokens
MaxLoads == 2         \* calls of loadAdmins per run of SpecAdmins
MaxAdminTicks == 2    \* clock steps per run of SpecAdmins
MaxUpdateCalls == 3   \* calls of updateAboutStatus and updateStoryStatus per run of SpecProfile
MaxProfileTicks == 2  \* clock steps per run of SpecProfile

-----------------------------------------------------------------------------
(* JavaScript strings *)

LowerCaseLetters == <<"a","b","c","d","e","f","g","h","i","j","k","l","m",
                      "n","o","p","q","r","s","t","u","v","w","x","y","z">>
UpperCaseLetters == <<"A","B","C","D","E","F","G","H","I","J","K","L","M",
                      "N","O","P","Q","R","S","T","U","V","W","X","Y","Z">>
Digits == <<"0","1","2","3","4","5","6","7","8","9">>

IsWhiteSpace(c) == c \in {" ", "\t", "\n"}
IsDigit(c) == \E i \in 1..10 : Digits[i] = c
DigitValue(c) == (CHOOSE i \in 1..10 : Digits[i] = c) - 1

\* String.prototype.startsWith / endsWith
StartsWith(s, p) == Len(s) >= Len(p) /\ SubSeq(s, 1, Len(p)) = p
EndsWith(s, p) == Len(s) >= Len(p) /\ SubSeq(s, Len(s) - Len(p) + 1, Len(s)) = p

RECURSIVE SkipWhiteSpace(_)
SkipWhiteSpace(s) ==
    IF s # <<>> /\ IsWhiteSpace(Head(s)) THEN SkipWhiteSpace(Tail(s)) ELSE s

RECURSIVE DropTrailingWhiteSpace(_)
DropTrailingWhiteSpace(s) ==
    IF s # <<>> /\ IsWhiteSpace(s[Len(s)])
    THEN DropTrailingWhiteSpace(SubSeq(s, 1, Len(s) - 1))
    ELSE s

\* String.prototype.trim
Trim(s) == DropTrailingWhiteSpace(SkipWhiteSpace(s))

\* String.prototype.split(/\s+/): the pieces between the runs of white space
RECURSIVE SplitWhiteSpace(_, _)
SplitWhiteSpace(s, piece) ==
    IF s = <<>> THEN <<piece>>
    ELSE IF IsWhiteSpace(Head(s))
         THEN <<piece>> \o SplitWhiteSpace(SkipWhiteSpace(s), <<>>)
         ELSE SplitWhiteSpace(Tail(s), Append(piece, Head(s)))

\* String.prototype.split(','): the pieces between the commas
RECURSIVE SplitComma(_, _)
SplitComma(s, piece) ==
    IF s = <<>> THEN <<piece>>
    ELSE IF Head(s) = ","
         THEN <<piece>> \o SplitComma(Tail(s), <<>>)
         ELSE SplitComma(Tail(s), Append(piece, Head(s)))

\* Array.prototype.join
RECURSIVE Join(_, _)
Join(list, sep) ==
    IF list = <<>> THEN <<>>
    ELSE IF Len(list) = 1 THEN list[1]
    ELSE list[1] \o sep \o Join(Tail(list), sep)

UpperOf(c) ==
    IF \E i \in 1..26 : LowerCaseLetters[i] = c
    THEN UpperCaseLetters[CHOOSE i \in 1..26 : LowerCaseLetters[i] = c]
    ELSE c

LowerOf(c) ==
    IF \E i \in 1..26 : UpperCaseLetters[i] = c
    THEN LowerCaseLetters[CHOOSE i \in 1..26 : UpperCaseLetters[i] = c]
    ELSE c

\* String.prototype.toUpperCase / toLowerCase
ToUpperCase(s) == [i \in 1..Len(s) |-> UpperOf(s[i])]
ToLowerCase(s) == [i \in 1..Len(s) |-> LowerOf(s[i])]

\* A config value: a string, a number, an array of strings, or undefined
StrV(s) == [t |-> "str", s |-> s]
NumV(n) == [t |-> "num", n |-> n]
ListV(l) == [t |-> "list", l |-> l]
Undefined == [t |-> "undefined"]

S_true == <<"t","r","u","e">>
S_false == <<"f","a","l","s","e">>
S_undefined == <<"u","n","d","e","f","i","n","e","d">>

RECURSIVE NatToString(_)
NatToString(n) ==
    IF n < 10 THEN <<Digits[n + 1]>>
    ELSE NatToString(n \div 10) \o <<Digits[(n % 10) + 1]>>

\* String(v), the conversion parseInt and a template literal apply
JsString(v) ==
    CASE v.t = "str" -> v.s
      [] v.t = "num" -> IF v.n < 0 THEN <<"-">> \o NatToString(-v.n) ELSE NatToString(v.n)
      [] v.t = "list" -> Join(v.l, <<",">>)
      [] OTHER -> S_undefined

NaN == [nan |-> TRUE, n |-> 0]
Num(n) == [nan |-> FALSE, n |-> n]

RECURSIVE DigitPrefixValue(_, _)
DigitPrefixValue(s, acc) ==
    IF s # <<>> /\ IsDigit(Head(s))
    THEN DigitPrefixValue(Tail(s), 10 * acc + DigitValue(Head(s)))
    ELSE acc

\* parseInt(v): leading white space, an optional sign, the decimal digits that
\* follow; NaN when no digit follows.
ParseInt(v) ==
    LET s0 == SkipWhiteSpace(JsString(v))
        neg == s0 # <<>> /\ Head(s0) = "-"
        s1 == IF s0 # <<>> /\ Head(s0) \in {"-", "+"} THEN Tail(s0) ELSE s0
    IN  IF s1 # <<>> /\ IsDigit(Head(s1))
        THEN Num(IF neg THEN -DigitPrefixValue(s1, 0) ELSE DigitPrefixValue(s1, 0))
        ELSE NaN

\* a || b on numbers: NaN and 0 are falsy
OrElse(a, b) == IF a.nan \/ a.n = 0 THEN b ELSE a.n

-----------------------------------------------------------------------------
(* userConfig *)

K_AUTO_VIEW_STATUS == <<"A","U","T","O","_","V","I","E","W","_","S","T","A","T","U","S">>
K_AUTO_LIKE_STATUS == <<"A","U","T","O","_","L","I","K","E","_","S","T","A","T","U","S">>
K_AUTO_RECORDING == <<"A","U","T","O","_","R","E","C","O","R","D","I","N","G">>
K_MAX_RETRIES == <<"M","A","X","_","R","E","T","R","I","E","S">>
K_AUTO_LIKE_EMOJI == <<"A","U","T","O","_","L","I","K","E","_","E","M","O","J","I">>
K_PREFIX == <<"P","R","E","F","I","X">>

\* userConfig.KEY
Get(cfg, key) == IF key \in DOMAIN cfg THEN cfg[key] ELSE Undefined

\* userConfig.KEY === 'true'
IsTrue(cfg, key) == Get(cfg, key) = StrV(S_true)

-----------------------------------------------------------------------------
(* setupStatusHandlers: the 'messages.upsert' handler of pair.js:199-255 *)

STATUS_INTERACTION_COOLDOWN == 10000
DEFAULT_RETRIES == 3
BACKOFF_UNIT == 1000

S_status_broadcast == <<"s","t","a","t","u","s","@","b","r","o","a","d","c","a","s","t">>
S_jid_A == <<"1","@","s",".","w","h","a","t","s","a","p","p",".","n","e","t">>
S_jid_B == <<"2","@","s",".","w","h","a","t","s","a","p","p",".","n","e","t">>
S_jid_group == <<"9","@","g",".","u","s">>

\* messages[0] as the status handler reads it
UpsertEvents ==
    { [hasKey |-> TRUE,  remoteJid |-> S_status_broadcast, participant |-> S_jid_B],
      [hasKey |-> TRUE,  remoteJid |-> S_status_broadcast, participant |-> <<>>],
      [hasKey |-> TRUE,  remoteJid |-> S_jid_A,            participant |-> <<>>],
      [hasKey |-> FALSE, remoteJid |-> <<>>,               participant |-> <<>>] }

\* pair.js:201, negated
IsStatusEvent(m) ==
    m.hasKey /\ m.remoteJid = S_status_broadcast /\ m.participant # <<>>

\* pair.js:205
InCooldown(now, last) == now - last < STATUS_INTERACTION_COOLDOWN

\* pair.js:215 and 233: parseInt(userConfig.MAX_RETRIES) || 3
InitialRetries(cfg) == OrElse(ParseInt(Get(cfg, K_MAX_RETRIES)), DEFAULT_RETRIES)

\* pair.js:216 and 234: while (retries > 0)
LoopContinues(retries) == retries > 0

\* a loop that gives up while one attempt is still left
Exhausted_OneEarly(retries) == retries <= 1

\* pair.js:223 and 247: if (retries === 0) throw error
Exhausted(retries) == retries = 0

\* pair.js:224 and 248: 1000 * (parseInt(userConfig.MAX_RETRIES) || 3 - retries);
\* the subtraction binds tighter than ||
RetryDelay(cfg, retries) ==
    BACKOFF_UNIT * OrElse(ParseInt(Get(cfg, K_MAX_RETRIES)), DEFAULT_RETRIES - retries)

NewHandler(now) ==
    [pc |-> "start", now |-> now, retries |-> 0, wake |-> 0, delays |-> <<>>,
     recorded |-> FALSE,
     readAttempts |-> 0, readFails |-> 0, readOk |-> FALSE,
     reactAttempts |-> 0, reactFails |-> 0, reactOk |-> FALSE,
     error |-> FALSE, threw |-> "none"]

\* a catch block that swallows the error without logging it
Caught_Silently(r) == [r EXCEPT !.pc = "done"]

\* pair.js:252-254: the handler's catch logs the error and the handler ends
Caught(r) == [r EXCEPT !.pc = "done", !.error = TRUE]

\* a rejected await or a `throw error` leaves the try block of pair.js:209
Throw(r, what) == Caught([r EXCEPT !.threw = what])

\* pair.js:234-240: the loop test of the reaction, then the awaited sendMessage
ReactLoop(r) ==
    IF LoopContinues(r.retries)
    THEN [r EXCEPT !.pc = "react", !.reactAttempts = @ + 1]
    ELSE [r EXCEPT !.pc = "done"]

\* pair.js:229-233
EnterReact(r, cfg) ==
    IF IsTrue(cfg, K_AUTO_LIKE_STATUS)
    THEN ReactLoop([r EXCEPT !.retries = InitialRetries(cfg)])
    ELSE [r EXCEPT !.pc = "done"]

\* pair.js:216-218: the loop test of the read, then the awaited readMessages
ReadLoop(r, cfg) ==
    IF LoopContinues(r.retries)
    THEN [r EXCEPT !.pc = "read", !.readAttempts = @ + 1]
    ELSE EnterReact(r, cfg)

\* pair.js:214-215
EnterRead(r, cfg) ==
    IF IsTrue(cfg, K_AUTO_VIEW_STATUS)
    THEN ReadLoop([r EXCEPT !.retries = InitialRetries(cfg)], cfg)
    ELSE EnterReact(r, cfg)

\* pair.js:210-211
EnterPresence(r, cfg) ==
    IF IsTrue(cfg, K_AUTO_RECORDING)
    THEN [r EXCEPT !.pc = "presence", !.recorded = TRUE]
    ELSE EnterRead(r, cfg)

\* pair.js:199-212: a 'messages.upsert' event reaches the handler, which runs
\* to its first await
StatusUpsert(m, maxEvents) ==
    /\ Len(h) < maxEvents
    /\ IF ~IsStatusEvent(m)
       THEN UNCHANGED h
       ELSE IF InCooldown(clock, lastStatusInteraction)
            THEN h' = Append(h, [NewHandler(clock) EXCEPT !.pc = "dropped"])
            ELSE h' = Append(h, EnterPresence(NewHandler(clock), userConfig))
    /\ UNCHANGED <<profileVars, adminVars, clock, ticks, userConfig, lastStatusInteraction, cmdVars, cleanVars, sessVars>>

\* pair.js:211: the awaited sendPresenceUpdate settles
PresenceSettles(i, ok) ==
    /\ h[i].pc = "presence"
    /\ h' = [h EXCEPT ![i] = IF ok THEN EnterRead(@, userConfig) ELSE Throw(@, "presence")]
    /\ UNCHANGED <<profileVars, adminVars, clock, ticks, userConfig, lastStatusInteraction, cmdVars, cleanVars, sessVars>>

\* pair.js:220-225 and 244-249: the catch of one attempt
AttemptFailed(r, cfg, what, delayPc) ==
    LET left == r.retries - 1
    IN  IF Exhausted(left)
        THEN Throw([r EXCEPT !.retries = left], what)
        ELSE [r EXCEPT !.retries = left, !.pc = delayPc,
                       !.wake = clock + RetryDelay(cfg, left),
                       !.delays = Append(@, RetryDelay(cfg, left))]

\* pair.js:218-225: the awaited readMessages settles
ReadSettles(i, ok) ==
    /\ h[i].pc = "read"
    /\ h' = [h EXCEPT ![i] =
                IF ok
                THEN EnterReact([@ EXCEPT !.readOk = TRUE], userConfig)
                ELSE AttemptFailed([@ EXCEPT !.readFails = @ + 1], userConfig, "read", "readDelay")]
    /\ UNCHANGED <<profileVars, adminVars, clock, ticks, userConfig, lastStatusInteraction, cmdVars, cleanVars, sessVars>>

\* The timer of an awaited delay fires once Date.now() has reached its time
TimerDue(now, wake) == now >= wake

\* pair.js:224 then 216: the delay is over and the loop goes round
ReadDelayOver(i) ==
    /\ h[i].pc = "readDelay"
    /\ TimerDue(clock, h[i].wake)
    /\ h' = [h EXCEPT ![i] = ReadLoop([@ EXCEPT !.wake = 0], userConfig)]
    /\ UNCHANGED <<profileVars, adminVars, clock, ticks, userConfig, lastStatusInteraction, cmdVars, cleanVars, sessVars>>

\* pair.js:236-249: the awaited sendMessage of the reaction settles
ReactSettles(i, ok) ==
    /\ h[i].pc = "react"
    /\ IF ok
       THEN /\ h' = [h EXCEPT ![i] = [@ EXCEPT !.reactOk = TRUE, !.pc = "done"]]
            /\ lastStatusInteraction' = h[i].now
       ELSE /\ h' = [h EXCEPT ![i] =
                       AttemptFailed([@ EXCEPT !.reactFails = @ + 1], userConfig, "react", "reactDelay")]
            /\ UNCHANGED lastStatusInteraction
    /\ UNCHANGED <<profileVars, adminVars, clock, ticks, userConfig, cmdVars, cleanVars, sessVars>>

\* pair.js:248 then 234
ReactDelayOver(i) ==
    /\ h[i].pc = "reactDelay"
    /\ TimerDue(clock, h[i].wake)
    /\ h' = [h EXCEPT ![i] = ReactLoop([@ EXCEPT !.wake = 0])]
    /\ UNCHANGED <<profileVars, adminVars, clock, ticks, userConfig, lastStatusInteraction, cmdVars, cleanVars, sessVars>>

\* Date.now() advances
\* Date.now() advances; a step is longer than any retry delay of the model
ClockSteps == {5000}

Tick(d, maxTicks) ==
    /\ ticks < maxTicks
    /\ clock' = clock + d
    /\ ticks' = ticks + 1
    /\ UNCHANGED <<profileVars, adminVars, userConfig, statusVars, cmdVars, cleanVars, sessVars>>

-----------------------------------------------------------------------------
(* The state after construction *)

\* pair.js:196
StatusStart ==
    /\ lastStatusInteraction = 0
    /\ h = <<>>

\* pair.js:260
CommandStart ==
    /\ commandCooldowns = <<>>
    /\ cmdLog = <<>>
    /\ sent = 0
    /\ viewLines = {}

\* no cleanup has been called; no file is in the session directory
ArchiveIdle ==
    /\ octokit = FALSE
    /\ remoteFiles = {}
    /\ runs = <<>>

\* the missing file, a file that cannot be read or parsed, a file that
\* holds a list
MissingFile == [kind |-> "missing"]
UnreadableFile == [kind |-> "unreadable"]
ListFile(list) == [kind |-> "list", list |-> list]

Null == [kind |-> "null"]

\* pair.js:51-52; no admin file
AdminStart ==
    /\ adminCache = Null
    /\ adminCacheTime = 0
    /\ adminFile = MissingFile
    /\ loads = <<>>

\* pair.js:155, 175; no update has been called
ProfileStart ==
    /\ lastAboutUpdate = 0
    /\ lastStoryUpdate = 0
    /\ updates = <<>>

\* pair.js:45
SessionStart ==
    /\ activeSockets = <<>>
    /\ sessions = <<>>
    /\ sessionLog = <<>>

-----------------------------------------------------------------------------
(* The status handler of one socket *)

StartClock == 10 * STATUS_INTERACTION_COOLDOWN

OnOff == {StrV(S_true), StrV(S_false)}

ConfigsOver(retrySettings) ==
    { (K_AUTO_RECORDING :> rec) @@ (K_AUTO_VIEW_STATUS :> view) @@
      (K_AUTO_LIKE_STATUS :> like) @@ (K_MAX_RETRIES :> mr) :
        rec \in OnOff, view \in OnOff, like \in OnOff, mr \in retrySettings }

HandlerSteps ==
    \/ \E i \in DOMAIN h, ok \in BOOLEAN : PresenceSettles(i, ok)
    \/ \E i \in DOMAIN h, ok \in BOOLEAN : ReadSettles(i, ok)
    \/ \E i \in DOMAIN h : ReadDelayOver(i)
    \/ \E i \in DOMAIN h, ok \in BOOLEAN : ReactSettles(i, ok)
    \/ \E i \in DOMAIN h : ReactDelayOver(i)

\* SpecStatus: several status events whose handlers interleave at their awaits.
\* MAX_RETRIES is a string a `config set` stored.
StatusRetrySettings == {StrV(<<"1">>), StrV(<<"2">>)}

InitStatus ==
    /\ clock = StartClock
    /\ ticks = 0
    /\ userConfig \in ConfigsOver(StatusRetrySettings)
    /\ StatusStart
    /\ CommandStart
    /\ ArchiveIdle
    /\ SessionStart
    /\ AdminStart
    /\ ProfileStart

NextStatus ==
    \/ \E m \in UpsertEvents : StatusUpsert(m, MaxEvents)
    \/ HandlerSteps
    \/ \E d \in ClockSteps : Tick(d, MaxTicks)

SpecStatus == InitStatus /\ [][NextStatus]_vars

\* SpecRetry: the retry loops under every kind of MAX_RETRIES setting
AllRetrySettings ==
    {NumV(3), StrV(<<"1">>), StrV(<<"2">>), StrV(<<"0">>), StrV(<<"-","1">>),
     StrV(<<"x">>), Undefined}

InitRetry ==
    /\ clock = StartClock
    /\ ticks = 0
    /\ userConfig \in ConfigsOver(AllRetrySettings)
    /\ StatusStart
    /\ CommandStart
    /\ ArchiveIdle
    /\ SessionStart
    /\ AdminStart
    /\ ProfileStart

NextRetry ==
    \/ \E m \in UpsertEvents : StatusUpsert(m, MaxRetryEvents)
    \/ HandlerSteps
    \/ \E d \in ClockSteps : Tick(d, MaxRetryTicks)

SpecRetry == InitRetry /\ [][NextRetry]_vars

-----------------------------------------------------------------------------
(* Properties of the status handler *)

LikeOn == IsTrue(userConfig, K_AUTO_LIKE_STATUS)
ViewOn == IsTrue(userConfig, K_AUTO_VIEW_STATUS)
RecordingOn == IsTrue(userConfig, K_AUTO_RECORDING)

\* The retry count a MAX_RETRIES setting stands for, written out setting by
\* setting: the number itself, 3 where the setting is no usable number.
ConfiguredRetries ==
    LET v == userConfig[K_MAX_RETRIES]
    IN  CASE v = StrV(<<"1">>) -> 1
          [] v = StrV(<<"2">>) -> 2
          [] v = NumV(3) -> 3
          [] v = StrV(<<"-","1">>) -> -1
          [] OTHER -> 3

\* MAX_RETRIES is set to a positive number
PositiveSetting == userConfig[K_MAX_RETRIES] \in {StrV(<<"1">>), StrV(<<"2">>), NumV(3)}

Finished(r) == r.pc \in {"done", "dropped"}

\* C2: once every handler of the status events delivered within one 10 second
\* window has ended without an error, with auto-like enabled, exactly one of
\* the events has had its reaction sent.
C2_ExactlyOneReactionPerWindow ==
    ( /\ LikeOn
      /\ Len(h) >= 1
      /\ \A i \in DOMAIN h : Finished(h[i]) /\ ~h[i].error
      /\ h[Len(h)].now - h[1].now < STATUS_INTERACTION_COOLDOWN )
    => Cardinality({i \in DOMAIN h : h[i].reactAttempts > 0}) = 1

\* C3: of two status events less than 10 seconds apart at most one triggers a
\* mark-viewed action and at most one triggers a recording presence, under
\* every configuration.
C3_OneViewOneRecordingPerWindow ==
    \A i, j \in DOMAIN h :
        (i < j /\ h[j].now - h[i].now < STATUS_INTERACTION_COOLDOWN)
        => /\ ~(h[i].readAttempts > 0 /\ h[j].readAttempts > 0)
           /\ ~(h[i].recorded /\ h[j].recorded)

\* C7: with MAX_RETRIES set to a positive number m, a mark-viewed or react
\* action makes at most m attempts, makes no attempt after its first success,
\* gives up only after m failed attempts, and so succeeds with exactly m
\* attempts when m - 1 failures are followed by a success.
C7_RetryUntilSuccess ==
    PositiveSetting =>
    \A i \in DOMAIN h :
        LET r == h[i]
            m == ConfiguredRetries
        IN  /\ r.readAttempts <= m /\ r.reactAttempts <= m
            /\ r.readOk => /\ r.readAttempts = r.readFails + 1
                           /\ r.threw # "read"
                           /\ r.pc \notin {"read", "readDelay"}
            /\ r.reactOk => /\ r.reactAttempts = r.reactFails + 1
                            /\ r.pc = "done" /\ ~r.error
            /\ r.threw = "read" => r.readFails = m /\ r.readAttempts = m
            /\ r.threw = "react" => r.reactFails = m /\ r.reactAttempts = m
            /\ r.pc = "readDelay" => r.readFails < m /\ r.readAttempts = r.readFails
            /\ r.pc = "reactDelay" => r.reactFails < m /\ r.reactAttempts = r.reactFails
            /\ (r.readOk /\ r.readFails = m - 1) => r.readAttempts = m
            /\ (r.reactOk /\ r.reactFails = m - 1) => r.reactAttempts = m

\* a reaction has succeeded on the last of m >= 2 attempts
C7_SucceededOnLastAttempt ==
    /\ PositiveSetting
    /\ ConfiguredRetries >= 2
    /\ \E i \in DOMAIN h :
          /\ h[i].reactOk /\ h[i].pc = "done"
          /\ h[i].reactFails = ConfiguredRetries - 1

\* C8: an action whose attempts have all failed has thrown to the handler's
\* catch, which has logged the error and ended the handler; the failure starts
\* no cooldown: the cooldown time is that of an event whose reaction succeeded,
\* and a status event is suppressed only by such an event less than 10 seconds
\* before it.
C8_ExhaustionIsLoggedAndNotFatal ==
    /\ \A i \in DOMAIN h :
          LET r == h[i]
          IN  /\ (r.readFails = ConfiguredRetries \/ r.reactFails = ConfiguredRetries)
                 => r.pc = "done" /\ r.error /\ r.threw \in {"read", "react"}
              /\ r.error => ~r.reactOk
              /\ r.pc = "dropped" =>
                    \E j \in 1..(i - 1) :
                        /\ h[j].reactOk
                        /\ r.now - h[j].now < STATUS_INTERACTION_COOLDOWN
    /\ lastStatusInteraction \in {0} \cup {h[j].now : j \in {k \in DOMAIN h : h[k].reactOk}}

\* the reactions of one event were exhausted, and an event that arrived later,
\* less than 10 seconds after it, has been reacted to
C8_NextEventProcessedAfterExhaustion ==
    \E i, j \in DOMAIN h :
        /\ i < j
        /\ h[i].threw = "react" /\ h[i].error
        /\ h[i].reactFails = ConfiguredRetries
        /\ h[j].now > h[i].now
        /\ h[j].now - h[i].now < STATUS_INTERACTION_COOLDOWN
        /\ h[j].reactOk

\* C9: every enabled action of a status event is attempted whatever happens
\* to the other actions, and an action gives up only after maxRetries failed
\* attempts of its own.
C9_ActionsAreIndependent ==
    \A i \in DOMAIN h :
        LET r == h[i]
        IN  /\ r.pc = "done" =>
                  /\ ViewOn => r.readAttempts >= 1
                  /\ LikeOn => r.reactAttempts >= 1
            /\ r.threw = "presence" => ConfiguredRetries = 1

-----------------------------------------------------------------------------
(* setupCommandHandlers: the 'messages.upsert' handler of pair.js:263-368 *)

COMMAND_COOLDOWN == 1000

S_config == <<"c","o","n","f","i","g">>
S_set == <<"s","e","t">>
S_view == <<"v","i","e","w">>
S_ping == <<"p","i","n","g">>
S_dot == <<".">>
S_space == <<" ">>

\* messages[0] as the command handler reads it: msg.key.remoteJid,
\* msg.key.participant, whether msg.message is there, and the fields of
\* msg.message the text is taken from (<<>>: the field is missing or empty)
ChatMessage(jid, participant, conversation) ==
    [hasMessage |-> TRUE, remoteJid |-> jid, participant |-> participant,
     conversation |-> conversation, extendedText |-> <<>>, buttonId |-> <<>>,
     imageCaption |-> <<>>, videoCaption |-> <<>>]

NoBodyMessage(jid) ==
    [ChatMessage(jid, <<>>, <<>>) EXCEPT !.hasMessage = FALSE]

\* pair.js:281-293
ExtractText_ExtendedFirst(m) ==
    IF m.extendedText # <<>> THEN Trim(m.extendedText)
    ELSE IF m.conversation # <<>> THEN Trim(m.conversation)
    ELSE IF m.buttonId # <<>> THEN Trim(m.buttonId)
    ELSE IF m.imageCaption # <<>> THEN Trim(m.imageCaption)
    ELSE IF m.videoCaption # <<>> THEN Trim(m.videoCaption)
    ELSE <<>>
ExtractText(m) ==
    IF m.conversation # <<>> THEN Trim(m.conversation)
    ELSE IF m.extendedText # <<>> THEN Trim(m.extendedText)
    ELSE IF m.buttonId # <<>> THEN Trim(m.buttonId)
    ELSE IF m.imageCaption # <<>> THEN Trim(m.imageCaption)
    ELSE IF m.videoCaption # <<>> THEN Trim(m.videoCaption)
    ELSE <<>>

\* pair.js:296: userConfig.PREFIX || '.'
PrefixOf(cfg) ==
    LET v == Get(cfg, K_PREFIX)
    IN  IF v.t = "str" /\ v.s # <<>> THEN v.s ELSE S_dot

\* pair.js:300
SenderOf(m) == m.remoteJid

\* pair.js:302
CommandInCooldown(cooldowns, sender, now) ==
    sender \in DOMAIN cooldowns /\ now - cooldowns[sender] < COMMAND_COOLDOWN

\* Map.prototype.set, and the assignment userConfig[key] = value
MapSet(map, key, value) ==
    [k \in DOMAIN map \cup {key} |-> IF k = key THEN value ELSE map[k]]

\* pair.js:307
CommandParts(text, prefix) ==
    SplitWhiteSpace(Trim(SubSeq(text, Len(prefix) + 1, Len(text))), <<>>)

\* pair.js:308
CommandName_AsTyped(parts) == parts[1]
CommandName(parts) == ToLowerCase(parts[1])

\* pair.js:309
CommandArgs(parts) == Tail(parts)

\* pair.js:338
IsConfigSet(args) == Len(args) >= 3 /\ args[1] = S_set

\* pair.js:354
IsConfigView(args) == Len(args) >= 1 /\ args[1] = S_view

\* pair.js:339
ConfigKey(args) == ToUpperCase(args[2])

\* a value cut down to its first word
ConfigValue_FirstWord(args) == args[3]

\* pair.js:340
ConfigValue(args) == Join(SubSeq(args, 3, Len(args)), S_space)

\* pair.js:343-347
StoredValue(key, value) ==
    IF key = K_AUTO_LIKE_EMOJI THEN ListV(SplitComma(value, <<>>)) ELSE StrV(value)

\* pair.js:357; "(bullet)" is the one character U+2022
ViewLine(key, v) ==
    <<"(bullet)", " ">> \o key \o <<":", " ">>
        \o (IF v.t = "list" THEN Join(v.l, <<",", " ">>) ELSE JsString(v))

\* pair.js:355-358
ConfigViewLines(cfg) == {ViewLine(k, cfg[k]) : k \in DOMAIN cfg}

LogEntry(m, now, outcome, command, args, replied) ==
    [msg |-> m, at |-> now, outcome |-> outcome, command |-> command,
     args |-> args, replied |-> replied]

\* pair.js:279, 297, 303: the handler returns
Dropped_ExtendsCooldown(m, outcome) ==
    /\ cmdLog' = Append(cmdLog, LogEntry(m, clock, outcome, <<>>, <<>>, FALSE))
    /\ commandCooldowns' = MapSet(commandCooldowns, SenderOf(m), clock)
    /\ UNCHANGED <<userConfig, sent, viewLines>>
Dropped(m, outcome) ==
    /\ cmdLog' = Append(cmdLog, LogEntry(m, clock, outcome, <<>>, <<>>, FALSE))
    /\ UNCHANGED <<commandCooldowns, userConfig, sent, viewLines>>

\* pair.js:337-368: case 'config'.  ok: the awaited updateUserConfig and
\* sendMessage both resolve
ConfigCommand(args, ok) ==
    IF IsConfigSet(args)
    THEN /\ userConfig' = MapSet(userConfig, ConfigKey(args),
                                 StoredValue(ConfigKey(args), ConfigValue(args)))
         /\ sent' = IF ok THEN sent + 1 ELSE sent
         /\ UNCHANGED viewLines
    ELSE IF IsConfigView(args)
    THEN /\ viewLines' = IF ok THEN ConfigViewLines(userConfig) ELSE viewLines
         /\ sent' = IF ok THEN sent + 1 ELSE sent
         /\ UNCHANGED userConfig
    ELSE /\ sent' = IF ok THEN sent + 1 ELSE sent
         /\ UNCHANGED <<userConfig, viewLines>>

\* pair.js:313-335 and 370-: a command other than config answers with messages
OtherCommand(ok) ==
    /\ sent' = IF ok THEN sent + 1 ELSE sent
    /\ UNCHANGED <<userConfig, viewLines>>

\* pair.js:263-368: a 'messages.upsert' event reaches the command handler
ChatUpsert(m, ok, maxMsgs) ==
    /\ Len(cmdLog) < maxMsgs
    /\ LET text == ExtractText(m)
           prefix == PrefixOf(userConfig)
           sender == SenderOf(m)
           now == clock
           parts == CommandParts(text, prefix)
       IN  IF ~m.hasMessage \/ m.remoteJid = S_status_broadcast
           THEN Dropped(m, "ignored")
           ELSE IF ~StartsWith(text, prefix)
           THEN Dropped(m, "noPrefix")
           ELSE IF CommandInCooldown(commandCooldowns, sender, now)
           THEN Dropped(m, "cooldown")
           ELSE /\ commandCooldowns' = MapSet(commandCooldowns, sender, now)
                /\ cmdLog' = Append(cmdLog,
                       LogEntry(m, now, "dispatched", CommandName(parts),
                                CommandArgs(parts), ok))
                /\ IF CommandName(parts) = S_config
                   THEN ConfigCommand(CommandArgs(parts), ok)
                   ELSE OtherCommand(ok)
    /\ UNCHANGED <<profileVars, adminVars, clock, ticks, statusVars, cleanVars, sessVars>>

\* defaultConfig, pair.js:22-32, without its paths and the owner number; each
\* emoji is one character, written as its name
DefaultUserConfig ==
    (K_AUTO_VIEW_STATUS :> StrV(S_true)) @@ (K_AUTO_LIKE_STATUS :> StrV(S_true)) @@
    (K_AUTO_RECORDING :> StrV(S_true)) @@
    (K_AUTO_LIKE_EMOJI :> ListV(<< <<"(collision)">>, <<"(thumbs up)">> >>)) @@
    (K_PREFIX :> StrV(S_dot)) @@ (K_MAX_RETRIES :> NumV(3))

-----------------------------------------------------------------------------
(* SpecCommand: the command cooldown, with commands of two people in a
   private chat and in a group *)

S_hello == <<"h","e","l","l","o">>

CommandTexts == {S_dot \o S_ping, S_hello}

CommandMessages ==
    { ChatMessage(S_jid_A, <<>>, t) : t \in CommandTexts } \cup
    { ChatMessage(S_jid_group, p, t) : p \in {S_jid_A, S_jid_B}, t \in CommandTexts } \cup
    { NoBodyMessage(S_jid_A), ChatMessage(S_status_broadcast, S_jid_B, S_dot \o S_ping) }

CommandClockSteps == {500}

InitCommand ==
    /\ clock = StartClock
    /\ ticks = 0
    /\ userConfig = DefaultUserConfig
    /\ StatusStart
    /\ CommandStart
    /\ ArchiveIdle
    /\ SessionStart
    /\ AdminStart
    /\ ProfileStart

NextCommand ==
    \/ \E m \in CommandMessages, ok \in BOOLEAN : ChatUpsert(m, ok, MaxCmdMsgs)
    \/ \E d \in CommandClockSteps : Tick(d, MaxCmdTicks)

SpecCommand == InitCommand /\ [][NextCommand]_vars

-----------------------------------------------------------------------------
(* SpecConfig: `config set` and `config view` in one private chat *)

S_foo == <<"f","o","o">>
S_FOO == <<"F","O","O">>
S_bar == <<"b","a","r">>

TypedKeys == {S_foo, S_FOO, K_AUTO_LIKE_EMOJI, ToLowerCase(K_AUTO_LIKE_EMOJI)}

TypedValues == {S_bar, <<"a"," "," ","b">>, <<"x",",","y">>}

ConfigSetText(key, value) ==
    S_dot \o S_config \o S_space \o S_set \o S_space \o key \o S_space \o value

ConfigViewText == S_dot \o S_config \o S_space \o S_view

ConfigMessages ==
    { ChatMessage(S_jid_A, <<>>, ConfigSetText(k, v)) : k \in TypedKeys, v \in TypedValues }
    \cup { ChatMessage(S_jid_A, <<>>, ConfigViewText),
           ChatMessage(S_jid_A, <<>>, S_dot \o S_config),
           ChatMessage(S_jid_A, <<>>, S_dot \o S_ping) }

ConfigClockSteps == {1000}

InitConfig ==
    /\ clock = StartClock
    /\ ticks = 0
    /\ userConfig = DefaultUserConfig
    /\ StatusStart
    /\ CommandStart
    /\ ArchiveIdle
    /\ SessionStart
    /\ AdminStart
    /\ ProfileStart

NextConfig ==
    \/ \E m \in ConfigMessages, ok \in BOOLEAN : ChatUpsert(m, ok, MaxConfigMsgs)
    \/ \E d \in ConfigClockSteps : Tick(d, MaxConfigTicks)

SpecConfig == InitConfig /\ [][NextConfig]_vars

-----------------------------------------------------------------------------
(* Properties of the command handler *)

\* The person who wrote a message: key.participant in a group, the chat
\* itself in a private chat
AuthorOf(m) == IF m.participant # <<>> THEN m.participant ELSE m.remoteJid

\* The log entries of the messages that are commands: a body that starts
\* with the prefix, outside the status broadcast
CommandEntries ==
    {i \in DOMAIN cmdLog :
        /\ cmdLog[i].msg.hasMessage
        /\ cmdLog[i].msg.remoteJid # S_status_broadcast
        /\ cmdLog[i].msg.conversation = S_dot \o S_ping}

DispatchedBefore(i) ==
    {j \in 1..(i - 1) :
        /\ cmdLog[j].outcome = "dispatched"
        /\ AuthorOf(cmdLog[j].msg) = AuthorOf(cmdLog[i].msg)}

Latest(indices) == CHOOSE j \in indices : \A k \in indices : k <= j

\* C4: of the commands of one sender, one is dispatched exactly when the
\* sender's last dispatched command is at least 1 second old (or there is
\* none): commands within 1 second of a dispatched one are dropped, and a
\* dropped command does not extend the cooldown.
C4_OneCommandPerSenderPerSecond ==
    \A i \in CommandEntries :
        LET before == DispatchedBefore(i)
        IN  cmdLog[i].outcome = "dispatched"
            <=> ( before = {}
                  \/ cmdLog[i].at - cmdLog[Latest(before)].at >= COMMAND_COOLDOWN )

\* C5: a command is dropped by the cooldown only when the same sender had a
\* command dispatched less than 1 second before it.
C5_CooldownIsPerSender ==
    \A i \in CommandEntries :
        cmdLog[i].outcome = "cooldown"
        => \E j \in DispatchedBefore(i) :
              cmdLog[i].at - cmdLog[j].at < COMMAND_COOLDOWN

\* The `config set` messages that were dispatched, and the `config view`
\* messages that were dispatched and answered
SetEntries ==
    {i \in DOMAIN cmdLog :
        /\ cmdLog[i].outcome = "dispatched"
        /\ \E k \in TypedKeys, v \in TypedValues :
              cmdLog[i].msg.conversation = ConfigSetText(k, v)}

ViewEntries ==
    {i \in DOMAIN cmdLog :
        /\ cmdLog[i].outcome = "dispatched"
        /\ cmdLog[i].replied
        /\ cmdLog[i].msg.conversation = ConfigViewText}

\* The key and the value of the latest `config set`, as they were typed
Typed ==
    CHOOSE kv \in TypedKeys \X TypedValues :
        cmdLog[Latest(SetEntries)].msg.conversation = ConfigSetText(kv[1], kv[2])

ViewedAfterSet ==
    /\ SetEntries # {}
    /\ ViewEntries # {}
    /\ Latest(ViewEntries) > Latest(SetEntries)

ShownLine(key, value) == <<"(bullet)", " ">> \o key \o <<":", " ">> \o value

\* What the typed keys and values are expected to become, one by one
UpperCased(key) ==
    CASE key = S_foo -> S_FOO
      [] key = S_FOO -> S_FOO
      [] OTHER -> K_AUTO_LIKE_EMOJI

SingleSpaced(value) ==
    CASE value = <<"a"," "," ","b">> -> <<"a"," ","b">>
      [] OTHER -> value

CommaPieces(value) ==
    CASE value = <<"x",",","y">> -> << <<"x">>, <<"y">> >>
      [] OTHER -> <<value>>

\* C10 as claimed: after `config set K V` and then `config view`, the view
\* shows the line `K: V` for K other than AUTO_LIKE_EMOJI, and `config set
\* AUTO_LIKE_EMOJI s` stores the list of s split on commas.
C10_ConfigRoundTripAsTyped ==
    /\ (ViewedAfterSet /\ Typed[1] # K_AUTO_LIKE_EMOJI)
       => ShownLine(Typed[1], Typed[2]) \in viewLines
    /\ (SetEntries # {} /\ Typed[1] = K_AUTO_LIKE_EMOJI)
       => userConfig[K_AUTO_LIKE_EMOJI] = ListV(CommaPieces(Typed[2]))

\* C10 as amended: the line shows K in upper case and V with each run of white
\* space replaced by one space; when the upper-cased K is AUTO_LIKE_EMOJI the
\* list of that V split on commas is stored and shown joined with ", ".
C10_ConfigRoundTripNormalised ==
    SetEntries # {} =>
    LET key == UpperCased(Typed[1])
        value == SingleSpaced(Typed[2])
    IN  IF key = K_AUTO_LIKE_EMOJI
        THEN /\ userConfig[key] = ListV(CommaPieces(value))
             /\ ViewedAfterSet
                => ShownLine(key, Join(CommaPieces(value), <<",", " ">>)) \in viewLines
        ELSE /\ userConfig[key] = StrV(value)
             /\ ViewedAfterSet => ShownLine(key, value) \in viewLines

\* `config set foo a  b` (two spaces) was dispatched and a later `config view`
\* was answered
C10_LowerCaseKeySetThenViewed ==
    /\ ViewedAfterSet
    /\ Typed = <<S_foo, <<"a"," "," ","b">> >>

-----------------------------------------------------------------------------
(* cleanDuplicateFiles, pair.js:90-125 *)

S_creds_ == <<"c","r","e","d","s","_">>
S_underscore == <<"_">>
S_dot_json == <<".","j","s","o","n">>

\* number.replace(/[^0-9]/g, '')
RECURSIVE Sanitize(_)
Sanitize(number) ==
    IF number = <<>> THEN <<>>
    ELSE IF IsDigit(Head(number)) THEN <<Head(number)>> \o Sanitize(Tail(number))
    ELSE Sanitize(Tail(number))

\* `creds_${sanitizedNumber}_`
CredsPrefix(sanitizedNumber) == S_creds_ \o sanitizedNumber \o S_underscore

\* the filter of pair.js:101-103
IsSessionFile_AnyContinuation(name, sanitizedNumber) ==
    /\ StartsWith(name, S_creds_ \o sanitizedNumber)
    /\ EndsWith(name, S_dot_json)
IsSessionFile(name, sanitizedNumber) ==
    /\ StartsWith(name, CredsPrefix(sanitizedNumber))
    /\ EndsWith(name, S_dot_json)

\* the longest run of digits at the head of s: what a greedy \d+ takes
RECURSIVE DigitRun(_)
DigitRun(s) ==
    IF s # <<>> /\ IsDigit(Head(s)) THEN <<Head(s)>> \o DigitRun(Tail(s)) ELSE <<>>

DropChars(s, n) == SubSeq(s, n + 1, Len(s))

\* /creds_\d+_(\d+)\.json/ tried at the head of s: the captured digits, <<>> when
\* it does not match there.  Each \d+ is followed by a character that is no
\* digit, so giving digits back never helps.
MatchAtHead(s) ==
    IF ~StartsWith(s, S_creds_) THEN <<>>
    ELSE LET a == DropChars(s, Len(S_creds_))
             number == DigitRun(a)
             b == DropChars(a, Len(number))
         IN  IF number = <<>> \/ ~StartsWith(b, S_underscore) THEN <<>>
             ELSE LET c == DropChars(b, 1)
                      time == DigitRun(c)
                  IN  IF time # <<>> /\ StartsWith(DropChars(c, Len(time)), S_dot_json)
                      THEN time ELSE <<>>

\* name.match(/creds_\d+_(\d+)\.json/)?.[1]: the leftmost match anywhere in the
\* name, <<>> for undefined
RECURSIVE MatchTimestamp(_)
MatchTimestamp(name) ==
    IF name = <<>> THEN <<>>
    ELSE IF MatchAtHead(name) # <<>> THEN MatchAtHead(name)
    ELSE MatchTimestamp(Tail(name))

\* parseInt(name.match(...)?.[1] || 0)
FileTime(name) ==
    LET m == MatchTimestamp(name)
    IN  IF m = <<>> THEN ParseInt(NumV(0)).n ELSE ParseInt(StrV(m)).n

\* the comparator of pair.js:103-107
Compare_Ascending(a, b) == FileTime(a) - FileTime(b)
Compare(a, b) == FileTime(b) - FileTime(a)

\* Array.prototype.sort: stable, so files the comparator calls equal keep
\* their order of arrival
RECURSIVE InsertSorted(_, _)
InsertSorted(sorted, x) ==
    IF sorted = <<>> THEN <<x>>
    ELSE IF Compare(Head(sorted), x) <= 0
         THEN <<Head(sorted)>> \o InsertSorted(Tail(sorted), x)
         ELSE <<x>> \o sorted

RECURSIVE SortFiles(_)
SortFiles(list) ==
    IF list = <<>> THEN <<>>
    ELSE InsertSorted(SortFiles(SubSeq(list, 1, Len(list) - 1)), list[Len(list)])

\* pair.js:101-107
SessionFiles(data, sanitizedNumber) ==
    SortFiles(SelectSeq(data, LAMBDA name : IsSessionFile(name, sanitizedNumber)))

NamesOf(list) == {list[k] : k \in DOMAIN list}

\* the directory listing getContent resolves with: the files in some order
RECURSIVE Listings(_)
Listings(files) ==
    IF files = {} THEN {<<>>}
    ELSE UNION {{<<name>> \o rest : rest \in Listings(files \ {name})} : name \in files}

NewRun(number) ==
    [number |-> number, sanitizedNumber |-> <<>>, pc |-> "returned",
     listed |-> {}, sessionFiles |-> <<>>, i |-> 0, deleted |-> {},
     listCalls |-> 0, deleteCalls |-> 0, error |-> FALSE, raised |-> FALSE]

\* pair.js:122-124: the error is logged and the function returns; raised
\* would be an error that reaches the caller
CleanCaught(run) == [run EXCEPT !.pc = "returned", !.error = TRUE]

\* pair.js:90-99: the call, up to its first await
CleanCall_WithoutClient(number) ==
    [NewRun(number) EXCEPT !.sanitizedNumber = Sanitize(number),
                           !.pc = "getContent", !.listCalls = 1]
CleanCall(number) ==
    IF ~octokit THEN NewRun(number)
    ELSE [NewRun(number) EXCEPT !.sanitizedNumber = Sanitize(number),
                                !.pc = "getContent", !.listCalls = 1]

CleanDuplicateFiles(number, maxRuns) ==
    /\ Len(runs) < maxRuns
    /\ runs' = Append(runs, CleanCall(number))
    /\ UNCHANGED <<profileVars, adminVars, clock, ticks, userConfig, statusVars, cmdVars, octokit, remoteFiles,
                   sessVars>>

\* pair.js:95-112: getContent settles; on success the files are filtered and
\* sorted and the first deleteFile is called
GetContentSettles(r, ok) ==
    /\ runs[r].pc = "getContent"
    /\ \E data \in Listings(remoteFiles) :
         LET sessionFiles == SessionFiles(data, runs[r].sanitizedNumber)
             listed == [runs[r] EXCEPT !.listed = NamesOf(data),
                                       !.sessionFiles = sessionFiles]
         IN  runs' = [runs EXCEPT ![r] =
                 IF ~ok THEN CleanCaught(@)
                 ELSE IF Len(sessionFiles) > 1
                      THEN [listed EXCEPT !.pc = "deleteFile", !.i = 1, !.deleteCalls = 1]
                      ELSE [listed EXCEPT !.pc = "returned"]]
    /\ UNCHANGED <<profileVars, adminVars, clock, ticks, userConfig, statusVars, cmdVars, octokit, remoteFiles,
                   sessVars>>

\* pair.js:111-120: deleteFile settles; GitHub rejects the deletion of a file
\* that is no longer there
DeleteFileSettles(r, ok) ==
    /\ runs[r].pc = "deleteFile"
    /\ LET run == runs[r]
           name == run.sessionFiles[run.i + 1]
       IN  /\ ok => name \in remoteFiles
           /\ IF ok
              THEN /\ remoteFiles' = remoteFiles \ {name}
                   /\ runs' = [runs EXCEPT ![r] =
                          IF run.i + 1 < Len(run.sessionFiles)
                          THEN [@ EXCEPT !.deleted = @ \cup {name}, !.i = @ + 1,
                                         !.deleteCalls = @ + 1]
                          ELSE [@ EXCEPT !.deleted = @ \cup {name}, !.i = @ + 1,
                                         !.pc = "returned"]]
              ELSE /\ runs' = [runs EXCEPT ![r] = CleanCaught(@)]
                   /\ UNCHANGED remoteFiles
    /\ UNCHANGED <<profileVars, adminVars, clock, ticks, userConfig, statusVars, cmdVars, octokit, sessVars>>

\* SpecClean: calls of cleanDuplicateFiles on a session directory that holds
\* any of these files
S_555 == <<"5","5","5">>
S_5551 == <<"5","5","5","1">>
CredsName(number, time) == CredsPrefix(number) \o time \o S_dot_json
F_555_100 == CredsName(S_555, <<"1","0","0">>)
F_555_50 == CredsName(S_555, <<"5","0">>)
F_555_200 == CredsName(S_555, <<"2","0","0">>)
F_555_x == CredsName(S_555, <<"x">>)
F_5551_300 == CredsName(S_5551, <<"3","0","0">>)
F_numbers == <<"n","u","m","b","e","r","s">> \o S_dot_json

ArchiveFiles == {F_555_100, F_555_50, F_555_200, F_555_x, F_5551_300, F_numbers}

CleanNumbers == {<<"+">> \o S_555, S_5551}

InitClean ==
    /\ clock = StartClock
    /\ ticks = 0
    /\ userConfig = DefaultUserConfig
    /\ StatusStart
    /\ CommandStart
    /\ octokit \in BOOLEAN
    /\ remoteFiles \in SUBSET ArchiveFiles
    /\ runs = <<>>
    /\ SessionStart
    /\ AdminStart
    /\ ProfileStart

NextClean ==
    \/ \E number \in CleanNumbers : CleanDuplicateFiles(number, MaxCleanRuns)
    \/ \E r \in DOMAIN runs, ok \in BOOLEAN : GetContentSettles(r, ok)
    \/ \E r \in DOMAIN runs, ok \in BOOLEAN : DeleteFileSettles(r, ok)

SpecClean == InitClean /\ [][NextClean]_vars

-----------------------------------------------------------------------------
(* Properties of cleanDuplicateFiles *)

\* the files named creds_N_<timestamp>.json, by number N, with their timestamps
CredentialFiles ==
    (S_555 :> {F_555_100, F_555_50, F_555_200}) @@ (S_5551 :> {F_5551_300})

TimestampOf ==
    (F_555_100 :> 100) @@ (F_555_50 :> 50) @@ (F_555_200 :> 200) @@ (F_5551_300 :> 300)

Newest(files) == CHOOSE f \in files : \A g \in files : TimestampOf[g] <= TimestampOf[f]

CompletedCleanly(run) ==
    run.pc = "returned" /\ run.listCalls = 1 /\ ~run.error

\* C6: once cleanDuplicateFiles(N) has returned with every remote call
\* successful, of the files creds_N_<timestamp>.json it found exactly one is
\* left in the directory, the one with the highest timestamp, and the run has
\* deleted each of the others.
C6_OnlyNewestCredentialFileRemains ==
    \A r \in DOMAIN runs :
        LET mine == CredentialFiles[runs[r].sanitizedNumber]
            found == mine \cap runs[r].listed
        IN  (CompletedCleanly(runs[r]) /\ found # {}) =>
                /\ remoteFiles \cap mine = {Newest(found)}
                /\ found \ {Newest(found)} \subseteq runs[r].deleted

\* the example: of creds_555_100.json, creds_555_50.json and creds_555_200.json
\* a clean run has deleted the first two and left the third
C6_ExampleCleaned ==
    \E r \in DOMAIN runs :
        /\ CompletedCleanly(runs[r])
        /\ {F_555_100, F_555_50, F_555_200} \subseteq runs[r].listed
        /\ {F_555_100, F_555_50} \subseteq runs[r].deleted
        /\ remoteFiles \cap CredentialFiles[S_555] = {F_555_200}

-----------------------------------------------------------------------------
(* The session manager.  src/pair.js declares the map of active sessions
   (pair.js:45) and reads its size; the code that starts, stops and reconnects a
   session is not in src/, so these definitions follow sections 3, 4.1 and 4.2
   of the specification. *)

Live(session) == session.state # "Terminated"

\* "a live session exists"
HasLiveSession_Never(all, number) == FALSE
HasLiveSession(all, number) ==
    \E i \in DOMAIN all : all[i].number = number /\ Live(all[i])

MapDelete_Keep(map, key) == map
MapDelete(map, key) == [k \in DOMAIN map \ {key} |-> map[k]]

\* attempts: the reconnect attempts made since the last disconnect
NewSession(number) ==
    [number |-> number, state |-> "Initializing", attemptsLeft |-> 0, attempts |-> 0]

Report(failure, number) == sessionLog' = <<failure, number>>

\* startSession(number, config), up to the retrieval of the credentials: fails
\* with AlreadyActive if a live session exists
StartSession(number, maxSessions) ==
    /\ Len(sessions) < maxSessions
    /\ IF HasLiveSession(sessions, number)
       THEN /\ Report("AlreadyActive", number)
            /\ UNCHANGED sessions
       ELSE /\ sessions' = Append(sessions, NewSession(number))
            /\ UNCHANGED sessionLog
    /\ UNCHANGED <<profileVars, adminVars, clock, ticks, userConfig, statusVars, cmdVars, cleanVars, activeSockets>>

\* Initializing -> Authenticating
Authenticate(i) ==
    /\ sessions[i].state = "Initializing"
    /\ sessions' = [sessions EXCEPT ![i].state = "Authenticating"]
    /\ UNCHANGED <<profileVars, adminVars, clock, ticks, userConfig, statusVars, cmdVars, cleanVars, activeSockets,
                   sessionLog>>

\* the retrieval of the credentials settles.  On success the session is
\* registered in the active map and the cleanup of duplicate files is
\* triggered; after MAX_RETRIES failed attempts startSession fails with
\* AuthExpired.
CredentialsSettle(i, ok) ==
    /\ sessions[i].state = "Authenticating"
    /\ IF ok
       THEN /\ sessions' = [sessions EXCEPT ![i].state = "Connected"]
            /\ activeSockets' = MapSet(activeSockets, sessions[i].number, i)
            /\ runs' = Append(runs, CleanCall(sessions[i].number))
            /\ UNCHANGED sessionLog
       ELSE /\ sessions' = [sessions EXCEPT ![i].state = "Terminated"]
            /\ Report("AuthExpired", sessions[i].number)
            /\ UNCHANGED <<activeSockets, runs>>
    /\ UNCHANGED <<profileVars, adminVars, clock, ticks, userConfig, statusVars, cmdVars, octokit, remoteFiles>>

\* an unexpected disconnect: Connected -> Reconnecting, with MAX_RETRIES
\* attempts to come
Disconnected(i) ==
    /\ sessions[i].state = "Connected"
    /\ sessions' = [sessions EXCEPT ![i].state = "Reconnecting",
                                    ![i].attemptsLeft = InitialRetries(userConfig),
                                    ![i].attempts = 0]
    /\ UNCHANGED <<profileVars, adminVars, clock, ticks, userConfig, statusVars, cmdVars, cleanVars, activeSockets,
                   sessionLog>>

\* "retries up to MAX_RETRIES": the attempt under way is the last one
LastAttempt_OneMore(session) == session.attemptsLeft <= 0
LastAttempt(session) == session.attemptsLeft <= 1

\* one reconnect attempt settles, after its backoff delay: Reconnecting ->
\* Connected, or one attempt fewer; with none left the failure is reported
\* and the session entry is removed
ReconnectSettles(i, ok) ==
    /\ sessions[i].state = "Reconnecting"
    /\ IF ok
       THEN /\ sessions' = [sessions EXCEPT ![i].state = "Connected",
                                            ![i].attemptsLeft = 0, ![i].attempts = 0]
            /\ UNCHANGED <<activeSockets, sessionLog>>
       ELSE IF ~LastAttempt(sessions[i])
            THEN /\ sessions' = [sessions EXCEPT ![i].attemptsLeft = @ - 1,
                                                 ![i].attempts = @ + 1]
                 /\ UNCHANGED <<activeSockets, sessionLog>>
            ELSE /\ sessions' = [sessions EXCEPT ![i].state = "Terminated",
                                                 ![i].attemptsLeft = 0,
                                                 ![i].attempts = @ + 1]
                 /\ activeSockets' = MapDelete(activeSockets, sessions[i].number)
                 /\ Report("PermanentDisconnect", sessions[i].number)
    /\ UNCHANGED <<profileVars, adminVars, clock, ticks, userConfig, statusVars, cmdVars, cleanVars>>

\* stopSession(number): removes the entry from the active map and releases
\* the underlying connection; no-op if absent
StoppedSessions(all, map, number) ==
    IF number \in DOMAIN map
    THEN [all EXCEPT ![map[number]].state = "Terminated"]
    ELSE all

StopSession(number) ==
    /\ sessions' = StoppedSessions(sessions, activeSockets, number)
    /\ activeSockets' = MapDelete(activeSockets, number)
    /\ UNCHANGED <<profileVars, adminVars, clock, ticks, userConfig, statusVars, cmdVars, cleanVars, sessionLog>>

\* SpecSession: starts, stops, disconnects and reconnects of the sessions of two
\* numbers, in any order.  No access token is configured, so the cleanup a
\* start triggers returns at once (SpecClean has its steps).
SessionNumbers == {S_555, S_5551}

InitSession ==
    /\ clock = StartClock
    /\ ticks = 0
    /\ userConfig = DefaultUserConfig
    /\ StatusStart
    /\ CommandStart
    /\ ArchiveIdle
    /\ SessionStart
    /\ AdminStart
    /\ ProfileStart

NextSession ==
    \/ \E number \in SessionNumbers : StartSession(number, MaxSessions)
    \/ \E i \in DOMAIN sessions : Authenticate(i)
    \/ \E i \in DOMAIN sessions, ok \in BOOLEAN : CredentialsSettle(i, ok)
    \/ \E i \in DOMAIN sessions : Disconnected(i)
    \/ \E i \in DOMAIN sessions, ok \in BOOLEAN : ReconnectSettles(i, ok)
    \/ \E number \in SessionNumbers : StopSession(number)

SpecSession == InitSession /\ [][NextSession]_vars

-----------------------------------------------------------------------------
(* Properties of the session manager *)

LiveSessionsOf(number) ==
    {i \in DOMAIN sessions : sessions[i].number = number /\ sessions[i].state # "Terminated"}

\* C1: whatever the order of starts, stops, disconnects and reconnects, a
\* number never has two live connections, and its entry in the active map, if
\* any, is its one live session.
C1_OneSessionPerNumber ==
    \A number \in SessionNumbers :
        /\ Cardinality(LiveSessionsOf(number)) <= 1
        /\ number \in DOMAIN activeSockets =>
               LiveSessionsOf(number) = {activeSockets[number]}

\* a start was refused for a number whose session is registered, and that
\* number had an earlier session that has ended
C1_DuplicateStartRefused ==
    \E number \in SessionNumbers :
        /\ sessionLog = <<"AlreadyActive", number>>
        /\ number \in DOMAIN activeSockets
        /\ \E i \in DOMAIN sessions :
               sessions[i].number = number /\ sessions[i].state = "Terminated"

-----------------------------------------------------------------------------
(* SpecExtract: chat messages that carry any combination of the five text
   sub-types *)

S_alive == <<"a","l","i","v","e">>
S_menu == <<"m","e","n","u">>
S_uptime == <<"u","p","t","i","m","e">>
S_repo == <<"r","e","p","o">>

\* what a sub-type can hold: nothing, a command of its own between spaces, or
\* a text that is no command
SubTypeTexts(command) == {<<>>, S_space \o S_dot \o command \o S_space, S_hello}

ExtractMessages ==
    { [ChatMessage(S_jid_A, <<>>, c) EXCEPT !.extendedText = e, !.buttonId = b,
                                            !.imageCaption = i, !.videoCaption = v] :
        c \in SubTypeTexts(S_alive) \cup {S_space},
        e \in SubTypeTexts(S_menu), b \in SubTypeTexts(S_ping),
        i \in SubTypeTexts(S_uptime), v \in SubTypeTexts(S_repo) }

InitExtract ==
    /\ clock = StartClock
    /\ ticks = 0
    /\ userConfig = DefaultUserConfig
    /\ StatusStart
    /\ CommandStart
    /\ ArchiveIdle
    /\ SessionStart
    /\ AdminStart
    /\ ProfileStart

NextExtract ==
    \E m \in ExtractMessages, ok \in BOOLEAN : ChatUpsert(m, ok, MaxExtractMsgs)

SpecExtract == InitExtract /\ [][NextExtract]_vars

-----------------------------------------------------------------------------
(* Properties of the text extraction *)

\* the five sub-types in their order, and the command each one carries in
\* SpecExtract
SubTypesOf(m) ==
    <<m.conversation, m.extendedText, m.buttonId, m.imageCaption, m.videoCaption>>

CommandOfSubType == <<S_alive, S_menu, S_ping, S_uptime, S_repo>>

PresentSubTypes(m) == {k \in 1..5 : SubTypesOf(m)[k] # <<>>}

FirstPresent(m) == CHOOSE k \in PresentSubTypes(m) : \A j \in PresentSubTypes(m) : k <= j

\* C11: the first present sub-type, in the order conversation, extended text,
\* button id, image caption, video caption, decides alone: the message is
\* dispatched as that sub-type's command when it holds a command (whatever
\* the later ones hold), it is not dispatched when that sub-type holds no
\* command, and it is not dispatched when no sub-type is present.
C11_FirstPresentSubTypeWins ==
    \A n \in DOMAIN cmdLog :
        LET m == cmdLog[n].msg
        IN  IF PresentSubTypes(m) = {} THEN cmdLog[n].outcome = "noPrefix"
            ELSE LET k == FirstPresent(m)
                 IN  IF SubTypesOf(m)[k] \in {S_hello, S_space}
                     THEN cmdLog[n].outcome = "noPrefix"
                     ELSE /\ cmdLog[n].outcome \in {"dispatched", "cooldown"}
                          /\ cmdLog[n].outcome = "dispatched" =>
                                 /\ cmdLog[n].command = CommandOfSubType[k]
                                 /\ cmdLog[n].args = <<>>

\* a message with a command as its extended text and another command as its
\* video caption, and no plain text, was dispatched
C11_ExtendedTextBeatsVideoCaption ==
    \E n \in DOMAIN cmdLog :
        /\ cmdLog[n].outcome = "dispatched"
        /\ cmdLog[n].msg.conversation = <<>>
        /\ cmdLog[n].msg.extendedText = S_space \o S_dot \o S_menu \o S_space
        /\ cmdLog[n].msg.videoCaption = S_space \o S_dot \o S_repo \o S_space
        /\ cmdLog[n].command = S_menu

-----------------------------------------------------------------------------
(* SpecTokens: commands typed in several ways, under a prefix of one and of
   two characters, in a private chat and in a group *)

S_bangs == <<"!","!">>

TypedPrefixes == {S_dot, S_bangs}

B_ping == S_ping
B_PING_a_B == <<"P","I","N","G"," ","a"," "," ","B">>
B_Menu_x == <<" ","M","e","n","u"," ","x">>
B_nothing == <<>>

TypedBodies == {B_ping, B_PING_a_B, B_Menu_x, B_nothing}

TokenTexts ==
    {q \o b : q \in TypedPrefixes, b \in TypedBodies} \cup {S_hello, S_space \o S_dot \o B_ping}

TokenMessages ==
    { ChatMessage(S_jid_A, <<>>, t) : t \in TokenTexts } \cup
    { ChatMessage(S_jid_group, S_jid_B, q \o B_ping) : q \in TypedPrefixes }

TokenClockSteps == {1000}

InitTokens ==
    /\ clock = StartClock
    /\ ticks = 0
    /\ userConfig \in {MapSet(DefaultUserConfig, K_PREFIX, StrV(q)) : q \in TypedPrefixes}
    /\ StatusStart
    /\ CommandStart
    /\ ArchiveIdle
    /\ SessionStart
    /\ AdminStart
    /\ ProfileStart

NextTokens ==
    \/ \E m \in TokenMessages, ok \in BOOLEAN : ChatUpsert(m, ok, MaxTokenMsgs)
    \/ \E d \in TokenClockSteps : Tick(d, MaxTokenTicks)

SpecTokens == InitTokens /\ [][NextTokens]_vars

-----------------------------------------------------------------------------
(* Properties of the tokenizer *)

\* the command and the args each typed body stands for
ExpectedCommand ==
    (B_ping :> S_ping) @@ (B_PING_a_B :> S_ping) @@ (B_Menu_x :> S_menu) @@
    (B_nothing :> <<>>)

ExpectedArgs ==
    (B_ping :> <<>>) @@ (B_PING_a_B :> << <<"a">>, <<"B">> >>) @@
    (B_Menu_x :> << <<"x">> >>) @@ (B_nothing :> <<>>)

\* the handler's cooldown applies to message n: a command of the same chat
\* was dispatched less than 1 second before it
ChatInCooldown(n) ==
    \E j \in 1..(n - 1) :
        /\ cmdLog[j].outcome = "dispatched"
        /\ cmdLog[j].msg.remoteJid = cmdLog[n].msg.remoteJid
        /\ cmdLog[n].at - cmdLog[j].at < COMMAND_COOLDOWN

\* C12: a message typed as the configured prefix followed by a body, outside
\* the handler's cooldown, is dispatched with the body's first token in lower
\* case as the command and its other tokens, as typed and in order, as the
\* args; a message that does not start with the configured prefix is never
\* dispatched.
C12_DispatchedAsTokenized ==
    \A n \in DOMAIN cmdLog :
        /\ \A q \in TypedPrefixes, b \in TypedBodies :
               cmdLog[n].msg.conversation = q \o b =>
                   IF StrV(q) = userConfig[K_PREFIX]
                   THEN ~ChatInCooldown(n) =>
                            /\ cmdLog[n].outcome = "dispatched"
                            /\ cmdLog[n].command = ExpectedCommand[b]
                            /\ cmdLog[n].args = ExpectedArgs[b]
                   ELSE cmdLog[n].outcome # "dispatched"
        /\ cmdLog[n].msg.conversation = S_hello => cmdLog[n].outcome # "dispatched"

\* `!!PING a  B` was dispatched under the prefix `!!`
C12_UpperCaseCommandWithArgsDispatched ==
    \E n \in DOMAIN cmdLog :
        /\ userConfig[K_PREFIX] = StrV(S_bangs)
        /\ cmdLog[n].msg.conversation = S_bangs \o B_PING_a_B
        /\ cmdLog[n].outcome = "dispatched"
        /\ cmdLog[n].args = << <<"a">>, <<"B">> >>

\* the MAX_RETRIES of SpecSession
SessionRetries == 3

Registered(i) ==
    /\ sessions[i].number \in DOMAIN activeSockets
    /\ activeSockets[sessions[i].number] = i

\* what holds of a session in every state: at most MAX_RETRIES reconnect
\* attempts per disconnect, none left to make once they have all failed, and
\* no entry in the active map once it is Terminated
LifecycleState ==
    \A i \in DOMAIN sessions :
        /\ sessions[i].attempts <= SessionRetries
        /\ sessions[i].state = "Reconnecting" => sessions[i].attempts < SessionRetries
        /\ sessions[i].state = "Terminated" => ~Registered(i)

\* what holds of every step: a Terminated session stays as it is, a
\* registered session that is stopped becomes Terminated and loses its entry,
\* and a reconnecting session whose last attempt fails becomes Terminated
LifecycleStep ==
    \A i \in DOMAIN sessions :
        /\ sessions[i].state = "Terminated" => sessions'[i] = sessions[i]
        /\ (Registered(i) /\ StopSession(sessions[i].number)) =>
               /\ sessions'[i].state = "Terminated"
               /\ sessions[i].number \notin DOMAIN activeSockets'
        /\ ( /\ sessions[i].state = "Reconnecting"
             /\ sessions[i].attempts = SessionRetries - 1
             /\ sessions'[i].attempts = SessionRetries ) =>
               sessions'[i].state = "Terminated"

\* C13: after an unexpected disconnect a session makes at most MAX_RETRIES
\* reconnect attempts; when they have all failed, or when it is stopped, it
\* becomes Terminated and its entry leaves the active map; a Terminated
\* session never changes again.
C13_SessionLifecycle == [](LifecycleState) /\ [][LifecycleStep]_vars

\* a session whose MAX_RETRIES reconnect attempts all failed is Terminated and
\* its number has no entry, and another session ended by a stop
C13_TerminatedAfterLastAttempt ==
    \E i, j \in DOMAIN sessions :
        /\ sessions[i].state = "Terminated"
        /\ sessions[i].attempts = SessionRetries
        /\ sessions[i].number \notin DOMAIN activeSockets
        /\ sessionLog = <<"PermanentDisconnect", sessions[i].number>>
        /\ sessions[j].state = "Terminated"
        /\ sessions[j].attempts = 0

\* stopSession(number) applied to the sessions and the map of the state, and
\* applied once more to what that gives
Once(number) ==
    [all |-> StoppedSessions(sessions, activeSockets, number),
     map |-> MapDelete(activeSockets, number)]

Twice(number) ==
    [all |-> StoppedSessions(Once(number).all, Once(number).map, number),
     map |-> MapDelete(Once(number).map, number)]

SameEntry(map1, map2, number) ==
    /\ number \in DOMAIN map1 <=> number \in DOMAIN map2
    /\ number \in DOMAIN map1 => map1[number] = map2[number]

\* in every state, for every number: stopping twice gives what stopping once
\* gives, and stopping a number without entry gives the state itself
StopIsIdempotent ==
    \A number \in SessionNumbers :
        /\ Twice(number) = Once(number)
        /\ number \notin DOMAIN activeSockets =>
               Once(number) = [all |-> sessions, map |-> activeSockets]

\* every stop that is taken: the number has no entry afterwards, nothing is
\* reported, every other number keeps its entry and its sessions, and without
\* an entry nothing changes at all
StopStep ==
    \A number \in SessionNumbers :
        StopSession(number) =>
            /\ number \notin DOMAIN activeSockets'
            /\ sessionLog' = sessionLog
            /\ \A other \in SessionNumbers \ {number} :
                   /\ SameEntry(activeSockets', activeSockets, other)
                   /\ \A i \in DOMAIN sessions :
                          sessions[i].number = other => sessions'[i] = sessions[i]
            /\ number \notin DOMAIN activeSockets => UNCHANGED vars

\* C14: stopSession(number) is idempotent, leaves no entry for the number, is
\* a no-op without error for a number that has no entry, and leaves the
\* entries of the other numbers as they are.
C14_StopSessionIdempotent == [](StopIsIdempotent) /\ [][StopStep]_vars

\* no failure was ever reported, one number's session has been stopped and
\* the other number's session is still registered
C14_StoppedBesideRegistered ==
    \E i, j \in DOMAIN sessions :
        /\ sessionLog = <<>>
        /\ sessions[i].state = "Terminated"
        /\ sessions[i].number \notin DOMAIN activeSockets
        /\ sessions[j].number # sessions[i].number
        /\ Registered(j)

\* C15: without an access token cleanDuplicateFiles returns at once, with no
\* list call and no delete call, no error and the directory as it was; and
\* with or without a token, whichever remote call fails, no error reaches its
\* caller.
C15_NoTokenNoCallsAndNeverRaises ==
    \A r \in DOMAIN runs :
        /\ ~runs[r].raised
        /\ ~octokit =>
               /\ runs[r].pc = "returned"
               /\ runs[r].listCalls = 0
               /\ runs[r].deleteCalls = 0
               /\ runs[r].deleted = {}
               /\ ~runs[r].error

\* without a token, a call for 555 has returned while the directory holds
\* three credential files of 555
C15_ReturnedWithoutTokenBesideDuplicates ==
    \E r \in DOMAIN runs :
        /\ ~octokit
        /\ runs[r].pc = "returned"
        /\ Sanitize(runs[r].number) = S_555
        /\ {F_555_100, F_555_50, F_555_200} \subseteq remoteFiles

-----------------------------------------------------------------------------
(* Properties of the retry delays *)

\* the delays a handler has waited for its mark-viewed action: they come
\* first in r.delays, one per failed read that was not the last
ReadDelayCount(r) ==
    IF r.readAttempts = 0 THEN 0
    ELSE IF r.readOk THEN r.readFails
    ELSE Len(r.delays)

SameAction(r, k) == k # ReadDelayCount(r)

\* C16: within one action, each delay is 1000 ms times a count, and the count
\* of a delay differs by one from the count of the delay before it.
C16_LinearBackoff ==
    \A i \in DOMAIN h :
        \A k \in 1..(Len(h[i].delays) - 1) :
            SameAction(h[i], k) =>
                \/ h[i].delays[k + 1] = h[i].delays[k] + BACKOFF_UNIT
                \/ h[i].delays[k + 1] = h[i].delays[k] - BACKOFF_UNIT

-----------------------------------------------------------------------------
(* loadAdmins, pair.js:61-78 *)

ADMIN_CACHE_TTL == 300000

\* an array, also the empty one, is truthy; null is not
Truthy(value) == value.kind = "list"

\* pair.js:64
CacheFresh_Never(cache, cacheTime, now) == FALSE
CacheFresh(cache, cacheTime, now) ==
    Truthy(cache) /\ now - cacheTime < ADMIN_CACHE_TTL

\* one call of loadAdmins: exists, read: whether fs.existsSync and
\* fs.readFileSync were called; raised: whether an error reached the caller
Load(now, file, exists, read, result) ==
    [at |-> now, file |-> file, exists |-> exists, read |-> read, result |-> result,
     raised |-> FALSE]

\* pair.js:61-78
LoadAdmins(maxLoads) ==
    /\ Len(loads) < maxLoads
    /\ LET now == clock
       IN  IF CacheFresh(adminCache, adminCacheTime, now)
           THEN /\ loads' = Append(loads, Load(now, adminFile, FALSE, FALSE, adminCache.list))
                /\ UNCHANGED <<adminCache, adminCacheTime>>
           ELSE IF adminFile.kind = "missing"
           THEN /\ loads' = Append(loads, Load(now, adminFile, TRUE, FALSE, <<>>))
                /\ UNCHANGED <<adminCache, adminCacheTime>>
           ELSE IF adminFile.kind = "unreadable"
           THEN /\ loads' = Append(loads, Load(now, adminFile, TRUE, TRUE, <<>>))
                /\ UNCHANGED <<adminCache, adminCacheTime>>
           ELSE /\ adminCache' = ListFile(adminFile.list)
                /\ adminCacheTime' = now
                /\ loads' = Append(loads, Load(now, adminFile, TRUE, TRUE, adminFile.list))
    /\ UNCHANGED <<profileVars, adminFile, clock, ticks, userConfig, statusVars, cmdVars,
                   cleanVars, sessVars>>

\* somebody replaces, breaks or removes the admin file
FileChanges(file) ==
    /\ file # adminFile
    /\ adminFile' = file
    /\ UNCHANGED <<profileVars, adminCache, adminCacheTime, loads, clock, ticks, userConfig,
                   statusVars, cmdVars, cleanVars, sessVars>>

\* SpecAdmins: calls of loadAdmins while the file changes and time passes
AdminLists == { <<>>, <<S_555>>, <<S_555, S_5551>> }

AdminFiles == {MissingFile, UnreadableFile} \cup {ListFile(list) : list \in AdminLists}

AdminClockSteps == {150000}

InitAdmins ==
    /\ clock = StartClock
    /\ ticks = 0
    /\ userConfig = DefaultUserConfig
    /\ StatusStart
    /\ CommandStart
    /\ ArchiveIdle
    /\ SessionStart
    /\ adminCache = Null
    /\ adminCacheTime = 0
    /\ adminFile \in AdminFiles
    /\ loads = <<>>
    /\ ProfileStart

NextAdmins ==
    \/ LoadAdmins(MaxLoads)
    \/ \E file \in AdminFiles : FileChanges(file)
    \/ \E d \in AdminClockSteps : Tick(d, MaxAdminTicks)

SpecAdmins == InitAdmins /\ [][NextAdmins]_vars

-----------------------------------------------------------------------------
(* Properties of loadAdmins *)

FiveMinutes == 300000

\* the calls before call n that read a list from the file
SuccessfulLoadsBefore(n) ==
    {j \in 1..(n - 1) : loads[j].read /\ loads[j].file.kind = "list"}

\* C17: a call less than 5 minutes after the last call that read a list
\* returns that list and does not touch the file, whatever the file holds by
\* then; any other call goes to the file and returns the list it holds now, or
\* the empty list when the file is missing or unreadable; no call raises.
C17_RefreshByTimeOnly ==
    \A n \in DOMAIN loads :
        LET before == SuccessfulLoadsBefore(n)
            last == CHOOSE j \in before : \A k \in before : k <= j
        IN  /\ ~loads[n].raised
            /\ IF before # {} /\ loads[n].at - loads[last].at < FiveMinutes
               THEN /\ ~loads[n].exists /\ ~loads[n].read
                    /\ loads[n].result = loads[last].file.list
               ELSE /\ loads[n].exists
                    /\ loads[n].file.kind = "list" =>
                           loads[n].read /\ loads[n].result = loads[n].file.list
                    /\ loads[n].file.kind # "list" => loads[n].result = <<>>

\* a call returned the list [555] from the cache although the file held the
\* list [555, 5551] by then
C17_StaleListServed ==
    \E n \in DOMAIN loads :
        /\ ~loads[n].read
        /\ loads[n].result = <<S_555>>
        /\ loads[n].file = ListFile(<<S_555, S_5551>>)

-----------------------------------------------------------------------------
(* Properties of what cleanDuplicateFiles deletes *)

\* the files named creds_N_*.json, by number N
NamedForNumber ==
    (S_555 :> {F_555_100, F_555_50, F_555_200, F_555_x}) @@ (S_5551 :> {F_5551_300})

DeletedByAnyRun == UNION {runs[r].deleted : r \in DOMAIN runs}

\* C18: a run for N deletes only files named creds_N_*.json: no credential
\* file of another number, also not of one that begins with N, and no other
\* file; no run, also not one a failed delete has ended, deletes the newest
\* creds_N file it found; and no file leaves the directory unless a run has
\* deleted it.
C18_DeletesOnlyOlderFilesOfTheNumber ==
    \A r \in DOMAIN runs :
        LET number == runs[r].sanitizedNumber
            found == CredentialFiles[number] \cap runs[r].listed
        IN  /\ runs[r].deleted # {} => runs[r].deleted \subseteq NamedForNumber[number]
            /\ F_numbers \notin runs[r].deleted
            /\ (runs[r].listed # {} /\ found # {}) => Newest(found) \notin runs[r].deleted
            /\ runs[r].listed \ remoteFiles \subseteq DeletedByAnyRun

\* a run for 555 that a failed delete has ended: it has deleted
\* creds_555_100.json, and creds_555_50.json, creds_555_200.json,
\* creds_5551_300.json and numbers.json are still there
C18_AbortedRunLeftTheRest ==
    \E r \in DOMAIN runs :
        /\ runs[r].pc = "returned"
        /\ runs[r].error
        /\ runs[r].deleted = {F_555_100}
        /\ {F_555_50, F_555_200, F_5551_300, F_numbers} \subseteq remoteFiles

-----------------------------------------------------------------------------
(* Properties of the retry loops under every MAX_RETRIES setting *)

\* the handler has gone past its mark-viewed action, or past its reaction
PastRead(r) ==
    r.pc \in {"react", "reactDelay", "done"} /\ r.threw \notin {"presence"}

PastReact(r) ==
    r.pc = "done" /\ r.threw \notin {"presence", "read"}

\* the most attempts any setting of SpecRetry allows
MostAttempts == 3

\* C19: whatever MAX_RETRIES is set to and whichever sends fail, an enabled
\* action makes at most a fixed number of attempts, and it has made at least
\* one attempt when the handler has gone past it.
C19_LoopsEndAfterAtLeastOneAttempt ==
    \A i \in DOMAIN h :
        /\ h[i].readAttempts <= MostAttempts
        /\ h[i].reactAttempts <= MostAttempts
        /\ (ViewOn /\ PastRead(h[i])) => h[i].readAttempts >= 1
        /\ (LikeOn /\ PastReact(h[i])) => h[i].reactAttempts >= 1

-----------------------------------------------------------------------------
(* Properties of what a dropped message leaves alone *)

\* the last message of a log is one the handler has to drop: no body, a
\* message of the status broadcast, a text that is no command, or a command
\* less than 1 second after a dispatched command of its chat
ToBeDropped(log) ==
    LET n == Len(log)
    IN  \/ ~log[n].msg.hasMessage
        \/ log[n].msg.remoteJid = S_status_broadcast
        \/ log[n].msg.conversation = S_hello
        \/ \E j \in 1..(n - 1) :
               /\ log[j].outcome = "dispatched"
               /\ log[j].msg.remoteJid = log[n].msg.remoteJid
               /\ log[n].at - log[j].at < COMMAND_COOLDOWN

\* the step that handles one more message
Handled == Len(cmdLog') = Len(cmdLog) + 1

DropFrame ==
    /\ Handled =>
          LET jid == cmdLog'[Len(cmdLog')].msg.remoteJid
          IN  IF ToBeDropped(cmdLog')
              THEN /\ commandCooldowns' = commandCooldowns
                   /\ userConfig' = userConfig
                   /\ sent' = sent
              ELSE /\ DOMAIN commandCooldowns' = DOMAIN commandCooldowns \cup {jid}
                   /\ commandCooldowns'[jid] = clock
                   /\ \A other \in DOMAIN commandCooldowns \ {jid} :
                          commandCooldowns'[other] = commandCooldowns[other]
    /\ ~Handled => commandCooldowns' = commandCooldowns

\* C20: a message that is dropped (no body, status broadcast, no prefix,
\* cooldown) changes neither the cooldown map nor the user configuration and
\* sends no reply; the cooldown map changes only when a message passes the
\* prefix and the cooldown test, and then only in the new time of that
\* message's sender.
C20_DroppedMessageChangesNothing == [][DropFrame]_vars

\* a command was dropped by the cooldown and the map still holds the earlier
\* time of the command that was dispatched before it
C20_CooldownKeptItsTime ==
    \E n \in DOMAIN cmdLog :
        /\ cmdLog[n].outcome = "cooldown"
        /\ cmdLog[n].msg.remoteJid \in DOMAIN commandCooldowns
        /\ commandCooldowns[cmdLog[n].msg.remoteJid] < cmdLog[n].at

-----------------------------------------------------------------------------
(* updateAboutStatus and updateStoryStatus, pair.js:154-192 *)

ABOUT_UPDATE_INTERVAL == 3600000
STORY_UPDATE_INTERVAL == 86400000

\* pair.js:160, 180
UpdatedRecently(now, lastUpdate, interval) == now - lastUpdate < interval

\* one call of either function by one session's socket: now is Date.now() at
\* the call (159, 179); pc is "skipped" when the call returned at 161 or 181,
\* "awaiting" while it is suspended in the send (166, 186), then "updated"
\* or "failed"; settledAt is the time the send settled
NewUpdate(kind, socket, now, pc) ==
    [kind |-> kind, socket |-> socket, now |-> now, pc |-> pc, settledAt |-> 0]

\* pair.js:158-166, up to the awaited socket.updateProfileStatus
UpdateAboutStatus(socket, maxCalls) ==
    /\ Len(updates) < maxCalls
    /\ LET now == clock
       IN  updates' = Append(updates,
               NewUpdate("about", socket, now,
                   IF UpdatedRecently(now, lastAboutUpdate, ABOUT_UPDATE_INTERVAL)
                   THEN "skipped" ELSE "awaiting"))
    /\ UNCHANGED <<lastAboutUpdate, lastStoryUpdate, adminVars, clock, ticks, userConfig,
                   statusVars, cmdVars, cleanVars, sessVars>>

\* pair.js:166-171: socket.updateProfileStatus settles
UpdateProfileStatusSettles(i, ok) ==
    /\ i \in DOMAIN updates
    /\ updates[i].kind = "about"
    /\ updates[i].pc = "awaiting"
    /\ IF ok
       THEN /\ lastAboutUpdate' = updates[i].now
            /\ updates' = [updates EXCEPT ![i].pc = "updated", ![i].settledAt = clock]
       ELSE /\ UNCHANGED lastAboutUpdate
            /\ updates' = [updates EXCEPT ![i].pc = "failed", ![i].settledAt = clock]
    /\ UNCHANGED <<lastStoryUpdate, adminVars, clock, ticks, userConfig, statusVars, cmdVars,
                   cleanVars, sessVars>>

\* pair.js:178-186, up to the awaited socket.sendMessage
UpdateStoryStatus(socket, maxCalls) ==
    /\ Len(updates) < maxCalls
    /\ LET now == clock
       IN  updates' = Append(updates,
               NewUpdate("story", socket, now,
                   IF UpdatedRecently(now, lastStoryUpdate, STORY_UPDATE_INTERVAL)
                   THEN "skipped" ELSE "awaiting"))
    /\ UNCHANGED <<lastAboutUpdate, lastStoryUpdate, adminVars, clock, ticks, userConfig,
                   statusVars, cmdVars, cleanVars, sessVars>>

\* pair.js:186-191: socket.sendMessage('status@broadcast', ...) settles
SendStorySettles(i, ok) ==
    /\ i \in DOMAIN updates
    /\ updates[i].kind = "story"
    /\ updates[i].pc = "awaiting"
    /\ IF ok
       THEN /\ lastStoryUpdate' = updates[i].now
            /\ updates' = [updates EXCEPT ![i].pc = "updated", ![i].settledAt = clock]
       ELSE /\ UNCHANGED lastStoryUpdate
            /\ updates' = [updates EXCEPT ![i].pc = "failed", ![i].settledAt = clock]
    /\ UNCHANGED <<lastAboutUpdate, adminVars, clock, ticks, userConfig, statusVars, cmdVars,
                   cleanVars, sessVars>>

\* SpecProfile: the sockets of two sessions call both functions while time
\* passes; Date.now() starts later than both intervals after the epoch
ProfileSockets == {S_555, S_5551}

ProfileStartClock == 2 * STORY_UPDATE_INTERVAL

\* half of either interval
ProfileClockSteps == {ABOUT_UPDATE_INTERVAL \div 2, STORY_UPDATE_INTERVAL \div 2}

InitProfile ==
    /\ clock = ProfileStartClock
    /\ ticks = 0
    /\ userConfig = DefaultUserConfig
    /\ StatusStart
    /\ CommandStart
    /\ ArchiveIdle
    /\ SessionStart
    /\ AdminStart
    /\ ProfileStart

NextProfile ==
    \/ \E socket \in ProfileSockets : UpdateAboutStatus(socket, MaxUpdateCalls)
    \/ \E i \in 1..MaxUpdateCalls, ok \in BOOLEAN : UpdateProfileStatusSettles(i, ok)
    \/ \E socket \in ProfileSockets : UpdateStoryStatus(socket, MaxUpdateCalls)
    \/ \E i \in 1..MaxUpdateCalls, ok \in BOOLEAN : SendStorySettles(i, ok)
    \/ \E d \in ProfileClockSteps : Tick(d, MaxProfileTicks)

SpecProfile == InitProfile /\ [][NextProfile]_vars

-----------------------------------------------------------------------------
(* Properties of the profile updates *)

OneHour == 3600000
OneDay == 86400000

IntervalOf(kind) == IF kind = "about" THEN OneHour ELSE OneDay

Succeeded(i) == updates[i].pc = "updated"

Apart(a, b, d) == a - b >= d \/ b - a >= d

\* two successful updates of one kind are a whole interval apart, whether
\* the time of an update is taken at its call or at its completion
OneSuccessPerInterval ==
    \A i, j \in DOMAIN updates :
        /\ i < j
        /\ updates[i].kind = updates[j].kind
        /\ Succeeded(i)
        /\ Succeeded(j)
        => \/ Apart(updates[i].now, updates[j].now, IntervalOf(updates[i].kind))
           \/ Apart(updates[i].settledAt, updates[j].settledAt, IntervalOf(updates[i].kind))

\* a call is skipped only within the interval of a successful update of its
\* kind: a failed update starts no interval
SkippedOnlyAfterSuccess ==
    \A i \in DOMAIN updates :
        updates[i].pc = "skipped"
        => \E j \in DOMAIN updates :
               /\ j # i
               /\ updates[j].kind = updates[i].kind
               /\ Succeeded(j)
               /\ ~Apart(updates[i].now, updates[j].now, IntervalOf(updates[i].kind))

\* C21: across all sessions at most one about update succeeds per hour and
\* at most one story post succeeds per 24 hours, also when two sessions are
\* suspended in the send together; a failed update starts no interval
C21_OneSuccessfulUpdatePerInterval ==
    /\ OneSuccessPerInterval
    /\ SkippedOnlyAfterSuccess

====
